---- MODULE Spec2Model ----
(***************************************************************************)
(* Model of the calendar/clock library in utils/src/datetime:              *)
(* bounded primitives (primatives.rs), Date (date.rs), Time and Offset     *)
(* (time.rs), DateTime (datetime.rs) and the JSON round trip (json.rs).    *)
(* Every operator is a transcription of the Rust function of the same name *)
(* (Type::name is written Type_name).                                      *)
(***************************************************************************)
EXTENDS Integers, Sequences, FiniteSets, TLC

VARIABLES
    date,      \* Date: the object the arithmetic methods mutate (self)
    start,     \* copy of `date` taken when the last arithmetic call began
    op,        \* name of the last Date call
    n,         \* count argument of the last arithmetic call
    newArgs,   \* (year, month, day) handed to the last Date::new
    result,    \* outcome of the last Date::new: "Ok" | "Invalid" | "none"
    prim,      \* a bounded primitive: [kind, value]
    pprev,     \* value of `prim` when the last step call began
    pop,       \* name of the last primitive call
    praw,      \* raw integer handed to the last fallible constructor
    pres,      \* outcome of the last fallible constructor
    offArg,    \* seconds handed to Offset::from_seconds
    offset,    \* the Offset it returned (its seconds)
    offRes,    \* outcome of Offset::from_seconds: "Ok" | "Invalid" | "none"
    timeArgs,  \* (hour, minute, seconds, milliseconds, offset) of Time::new
    time,      \* the Time built by the last Time::new / DateTime::new
    timeRes,   \* outcome of the last Time::new
    fmt,       \* DateTimeFormat handed to the last format call
    out,       \* the String the last format call returned
    clock,     \* what the system clock answers: UTC date/time, local lookup
    nowOp,     \* name of the last clock factory called
    nowRes,    \* its outcome: [kind, cause, weekday]
    json,      \* the JSON text of the last to_json, as its list of members
    back,      \* outcome of the last from_json
    jsonOp,    \* name of the last JSON call
    call,      \* arguments handed to the last call of a pure function
    callOp,    \* name of that function
    ret,       \* what it returned
    walk       \* a running loop over dates: [fn, self, other, weekday, date,
               \* dates, days, steps, pc]

dateVars == <<date, start, op, n, newArgs, result>>
primVars == <<prim, pprev, pop, praw, pres>>
offVars == <<offArg, offset, offRes>>
timeVars == <<timeArgs, time, timeRes>>
fmtVars == <<fmt, out>>
nowVars == <<clock, nowOp, nowRes>>
jsonVars == <<json, back, jsonOp>>
callVars == <<call, callOp, ret>>
walkVars == <<walk>>
vars == <<date, start, op, n, newArgs, result, prim, pprev, pop, praw, pres,
          offArg, offset, offRes, timeArgs, time, timeRes, fmt, out,
          clock, nowOp, nowRes, json, back, jsonOp, call, callOp, ret,
          walk>>

----------------------------------------------------------------------------
(* Bounds of the model *)

MinYear == 2020        \* arithmetic is explored on years MinYear..MaxYear
MaxYear == 2023
MaxN == 2              \* largest count handed to an arithmetic call
MaxMonthIn == 13       \* Date::new is tried on months 0..MaxMonthIn
MaxDayIn == 32         \* Date::new is tried on days 0..MaxDayIn
MaxMsIn == 1001        \* Millisecond::from_u16 is tried on 0..MaxMsIn
YearMargin == 3        \* Year::from_i32 is tried on -YearMargin..YearMargin
OffsetMargin == 2      \* Offset::from_seconds is tried this far past each end
MaxWeeks == 37         \* largest count handed to add_weeks / sub_weeks
MaxWalk == 8           \* a loop's list and counters are tracked up to MaxWalk
\* operands of the time arithmetic tried on each side of 0 and of the modulus
RemainderMargin == 2
MaxHalfHours == 29     \* offsets -1800 * MaxHalfHours .. 1800 * MaxHalfHours
MaxLowYear == 12       \* the leap-year rules are tried on years 0..MaxLowYear
MaxCentury == 21       \* and on the century years 100, 200 .. 100 * MaxCentury
TimeMargin == 1        \* Time::new is tried this far around each field's end

----------------------------------------------------------------------------
(* Rust integer arithmetic: / and % truncate toward zero *)

QuotT(a, b) == IF a >= 0 THEN a \div b ELSE -((-a) \div b)
RemT(a, b) == IF a >= 0 THEN a % b ELSE -((-a) % b)
WrapU8(x) == x % 256
U8 == 0..255
I32Ends == {-2147483647 - 1, 2147483647}

Ok(v) == [ok |-> TRUE, val |-> v, code |-> "Ok"]
Err(c) == [ok |-> FALSE, val |-> 0, code |-> c]

----------------------------------------------------------------------------
(* primatives.rs: Month *)

January == 1
February == 2
December == 12

Month_from_u8(month) ==
    IF month \in 1..12 THEN Ok(month) ELSE Err("Invalid")

valid_days_in_month(month, year) ==
    CASE month \in {1, 3, 5, 7, 8, 10, 12} -> 31
      [] month = February -> IF RemT(year, 4) = 0 THEN 29 ELSE 28
      [] OTHER -> 30

Month_is_valid_day(month, day, year) == day <= valid_days_in_month(month, year)

Month_last_day(month, year) == valid_days_in_month(month, year)

Month_is_last_day(month, year, day) == day = valid_days_in_month(month, year)

\* Iterator::next leaves December unchanged (returns None)
Month_next(month) == IF month = December THEN December ELSE month + 1

\* DoubleEndedIterator::next_back leaves January unchanged (returns None)
Month_next_back(month) == IF month = January THEN January ELSE month - 1

----------------------------------------------------------------------------
(* primatives.rs: Weekday (Sunday = 1 .. Saturday = 7) *)

Sunday == 1
Monday == 2
Tuesday == 3
Wednesday == 4
Thursday == 5
Friday == 6
Saturday == 7

Weekday_from_u8(day) ==
    IF day \in 1..7 THEN Ok(day) ELSE Err("Invalid")

Weekday_from_values(year, month, day) ==
    LET m == IF month < 3 THEN month + 12 ELSE month
        century == QuotT(year, 100)
        year_of_century == RemT(year, 100)
        weekday == RemT(day + QuotT((m + 1) * 26, 10) + year_of_century
                        + QuotT(year_of_century, 4) + QuotT(century, 4)
                        - 2 * century, 7)
    IN  Weekday_from_u8(RemT(weekday + 7, 7))

Weekday_next(w) == IF w = Saturday THEN Sunday ELSE w + 1

Weekday_next_back(w) == IF w = Sunday THEN Saturday ELSE w - 1

----------------------------------------------------------------------------
(* primatives.rs: Day, Year *)

Day_first == 1

Day_from_u8(day) == IF day > 31 THEN Err("Invalid") ELSE Ok(day)

\* 1..30 step up, 31 wraps to 1, any other value is left unchanged (None)
Day_next(day) ==
    IF day \in 1..30 THEN day + 1 ELSE IF day = 31 THEN 1 ELSE day

\* 2..31 step down, 1 wraps to 31, any other value is left unchanged (None)
Day_next_back(day) ==
    IF day \in 2..31 THEN day - 1 ELSE IF day = 1 THEN 31 ELSE day

Year_from_i32(year) == IF year < 0 THEN Err("Invalid") ELSE Ok(year)

Year_is_leap_year(year) == RemT(year, 4) = 0

Year_next(year) == year + 1

Year_next_back(year) == year - 1

----------------------------------------------------------------------------
(* date.rs: validation and construction *)

is_valid_month(month) == month >= 1 /\ month <= 12

is_valid_day(month, day, year) ==
    IF ~is_valid_month(month) THEN FALSE
    ELSE LET m == Month_from_u8(month)
         IN  IF ~m.ok THEN FALSE ELSE Month_is_valid_day(m.val, day, year)

is_valid_year(year) == year >= 0

Date_is_valid(year, month, day) ==
    is_valid_month(month) /\ is_valid_day(month, day, year) /\ is_valid_year(year)

MkDate(y, m, d, w) == [year |-> y, month |-> m, day |-> d, weekday |-> w]

NoDate == MkDate(0, 0, 0, 0)

Date_new(year, month, day) ==
    IF ~Date_is_valid(year, month, day) THEN Err("Invalid")
    ELSE LET weekday == Weekday_from_values(year, month, day)
             y == Year_from_i32(year)
             m == Month_from_u8(month)
             d == Day_from_u8(day)
         IN  IF ~weekday.ok THEN Err(weekday.code)
             ELSE IF ~y.ok THEN Err(y.code)
             ELSE IF ~m.ok THEN Err(m.code)
             ELSE IF ~d.ok THEN Err(d.code)
             ELSE Ok(MkDate(y.val, m.val, d.val, weekday.val))

----------------------------------------------------------------------------
(* date.rs: queries used by the arithmetic *)

is_last_day_of_month(d) == Month_is_last_day(d.month, d.year, d.day)

is_last_day_of_year(d) == d.month = December /\ d.day = 31

is_first_day_of_month(d) == d.day = 1

is_first_day_of_year(d) == d.month = January /\ d.day = 1

is_leap_year_day(d) == d.month = February /\ d.day = 29

----------------------------------------------------------------------------
(* date.rs: arithmetic.  Each *_step is one iteration of the method's loop; *)
(* no method writes self.weekday.                                           *)

add_days_step(d) ==
    LET m1 == IF is_last_day_of_month(d) THEN Month_next(d.month) ELSE d.month
        d1 == IF d.day > Month_last_day(m1, d.year) THEN Day_first
              ELSE Day_next(d.day)
        y1 == IF m1 = January /\ d1 = 1 THEN Year_next(d.year) ELSE d.year
    IN  MkDate(y1, m1, d1, d.weekday)

sub_days_step(d) ==
    LET m1 == IF is_first_day_of_month(d) THEN Month_next_back(d.month)
              ELSE d.month
        d1 == IF d.day = 1 THEN Month_last_day(m1, d.year)
              ELSE Day_next_back(d.day)
        y1 == IF m1 = December /\ d1 = 31 THEN Year_next_back(d.year)
              ELSE d.year
    IN  MkDate(y1, m1, d1, d.weekday)

RECURSIVE add_days(_, _)
add_days(d, days) ==
    IF days = 0 THEN d ELSE add_days(add_days_step(d), days - 1)

RECURSIVE sub_days(_, _)
sub_days(d, days) ==
    IF days = 0 THEN d ELSE sub_days(sub_days_step(d), days - 1)

add_weeks(d, weeks) == add_days(d, WrapU8(weeks * 7))

sub_weeks(d, weeks) == sub_days(d, WrapU8(weeks * 7))

\* `last` is is_last_day_of_month() of the date the call started on
add_months_step(d, last) ==
    LET y1 == IF d.month = December THEN Year_next(d.year) ELSE d.year
        last_day == Month_last_day(d.month, y1)
        d1 == IF last THEN last_day
              ELSE IF d.day > last_day THEN last_day ELSE d.day
    IN  MkDate(y1, Month_next(d.month), d1, d.weekday)

sub_months_step(d, last) ==
    LET y1 == IF d.month = January THEN Year_next_back(d.year) ELSE d.year
        last_day == Month_last_day(d.month, y1)
        d1 == IF last THEN last_day
              ELSE IF d.day > last_day THEN last_day ELSE d.day
    IN  MkDate(y1, Month_next_back(d.month), d1, d.weekday)

RECURSIVE months_loop(_, _, _, _)
months_loop(d, months, last, forward) ==
    IF months = 0 THEN d
    ELSE months_loop(IF forward THEN add_months_step(d, last)
                     ELSE sub_months_step(d, last),
                     months - 1, last, forward)

add_months(d, months) == months_loop(d, months, is_last_day_of_month(d), TRUE)

sub_months(d, months) == months_loop(d, months, is_last_day_of_month(d), FALSE)

\* `leap_day` is is_leap_year_day() of the date the call started on
years_step(d, leap_day, forward) ==
    LET is_leap_year == Year_is_leap_year(d.year)
        d1 == IF leap_day /\ is_leap_year THEN 29
              ELSE IF leap_day /\ ~is_leap_year THEN 28 ELSE d.day
        y1 == IF forward THEN Year_next(d.year) ELSE Year_next_back(d.year)
    IN  MkDate(y1, d.month, d1, d.weekday)

RECURSIVE years_loop(_, _, _, _)
years_loop(d, years, leap_day, forward) ==
    IF years = 0 THEN d
    ELSE years_loop(years_step(d, leap_day, forward), years - 1, leap_day, forward)

add_years(d, years) == years_loop(d, years, is_leap_year_day(d), TRUE)

sub_years(d, years) == years_loop(d, years, is_leap_year_day(d), FALSE)

----------------------------------------------------------------------------
(* primatives.rs: Hour, Minute, Second, Millisecond *)

Hour_from_u8(hour) == IF hour > 23 THEN Err("Invalid") ELSE Ok(hour)

Hour_next(h) == IF h = 23 THEN 0 ELSE h + 1

Hour_next_back(h) == IF h = 0 THEN 23 ELSE h - 1

Minute_from_u8(minute) == IF minute > 59 THEN Err("Invalid") ELSE Ok(minute)

Minute_next(m) == IF m = 59 THEN 0 ELSE m + 1

Minute_next_back(m) == IF m = 0 THEN 59 ELSE m - 1

Second_from_u8(second) == IF second > 59 THEN Err("Invalid") ELSE Ok(second)

Second_next(s) == IF s = 59 THEN 0 ELSE s + 1

Second_next_back(s) == IF s = 0 THEN 59 ELSE s - 1

Millisecond_from_u16(millisecond) ==
    IF millisecond > 999 THEN Err("Invalid") ELSE Ok(millisecond)

Millisecond_next(ms) == IF ms = 999 THEN 0 ELSE ms + 1

Millisecond_next_back(ms) == IF ms = 0 THEN 999 ELSE ms - 1

----------------------------------------------------------------------------
(* time.rs: Offset *)

\* the upper end compared with < instead of <=
is_valid_seconds_strict(from_seconds) ==
    from_seconds >= -43200 /\ from_seconds < 50400

is_valid_seconds(from_seconds) == from_seconds >= -43200 /\ from_seconds <= 50400

Offset_from_seconds(from_seconds) ==
    IF ~is_valid_seconds(from_seconds) THEN Err("Invalid") ELSE Ok(from_seconds)

----------------------------------------------------------------------------
(* time.rs: Time.  Option<T> is [some, v]. *)

None == [some |-> FALSE, v |-> 0]
Some(x) == [some |-> TRUE, v |-> x]

MkTime(h, m, s, ms, off) ==
    [hour |-> h, minute |-> m, seconds |-> s, milliseconds |-> ms,
     offset |-> off]
NoTime == MkTime(0, 0, 0, None, None)

\* a clock reading before any was taken, and a factory outcome before any call
NoClock == [year |-> 0, month |-> 0, day |-> 0, localOk |-> TRUE]
Outcome(k, c, d) == [kind |-> k, cause |-> c, date |-> d]
NoOutcome == Outcome("none", FALSE, NoDate)
NoBack == [ok |-> FALSE, val |-> NoDate, code |-> "none"]
NoCall == [fn |-> "none"]
NoRet == [kind |-> "none"]
NoWalk == [fn |-> "none", self |-> NoDate, other |-> NoDate, weekday |-> 0,
           date |-> NoDate, dates |-> <<>>, days |-> 0, steps |-> 0,
           pc |-> "idle"]

\* Time::new with the offset wrapped without Offset::from_seconds
Time_new_unchecked_offset(hour, minute, seconds, milliseconds, off) ==
    LET h == Hour_from_u8(hour)
        m == Minute_from_u8(minute)
        s == Second_from_u8(seconds)
        ms == IF milliseconds.some THEN Millisecond_from_u16(milliseconds.v)
              ELSE Ok(0)
    IN  IF ~h.ok THEN h
        ELSE IF ~m.ok THEN m
        ELSE IF ~s.ok THEN s
        ELSE IF ~ms.ok THEN ms
        ELSE Ok(MkTime(h.val, m.val, s.val,
                       IF milliseconds.some THEN Some(ms.val) ELSE None,
                       off))

\* each `?` returns the constructor's error as it is
Time_new(hour, minute, seconds, milliseconds, off) ==
    LET h == Hour_from_u8(hour)
        m == Minute_from_u8(minute)
        s == Second_from_u8(seconds)
        ms == IF milliseconds.some THEN Millisecond_from_u16(milliseconds.v)
              ELSE Ok(0)
        o == IF off.some THEN Offset_from_seconds(off.v) ELSE Ok(0)
    IN  IF ~h.ok THEN h
        ELSE IF ~m.ok THEN m
        ELSE IF ~s.ok THEN s
        ELSE IF ~ms.ok THEN ms
        ELSE IF ~o.ok THEN o
        ELSE Ok(MkTime(h.val, m.val, s.val,
                       IF milliseconds.some THEN Some(ms.val) ELSE None,
                       IF off.some THEN Some(o.val) ELSE None))

is_valid_hour(hour) == hour <= 23
is_valid_minute(minute) == minute <= 59
is_valid_second(seconds) == seconds <= 59
is_valid_millisecond(milliseconds) == milliseconds <= 999
is_valid_offset(off) == off >= -43200 /\ off <= 50400

Time_is_valid(hour, minute, seconds, milliseconds, off) ==
    /\ is_valid_hour(hour)
    /\ is_valid_minute(minute)
    /\ is_valid_second(seconds)
    /\ is_valid_millisecond(milliseconds)
    /\ is_valid_offset(off)

----------------------------------------------------------------------------
(* Formatting (date.rs, time.rs, datetime.rs).  A String is a TLA+ string. *)

\* impl Display for Year, Day, Hour, Minute, Second, Millisecond:
\* write!(f, "{}", self.0) starts a fresh format, so the width and fill of
\* the caller's "{:02}" are not applied to the digits
Display(value) == ToString(value)

\* format!("{:0w}", n) on a plain integer pads with zeros up to the width
RECURSIVE ZeroPad(_, _)
ZeroPad(digits, width) ==
    IF Len(digits) >= width THEN digits ELSE ZeroPad("0" \o digits, width)
FormatInt(number, width) == ZeroPad(ToString(number), width)

Month_as_long(month) ==
    <<"January", "February", "March", "April", "May", "June", "July",
      "August", "September", "October", "November", "December">>[month]

Month_as_short(month) ==
    <<"Jan", "Feb", "Mar", "Apr", "May", "Jun", "Jul", "Aug", "Sep", "Oct",
      "Nov", "Dec">>[month]

Weekday_as_short(weekday) ==
    <<"Sun", "Mon", "Tue", "Wed", "Thu", "Fri", "Sat">>[weekday]

Day_pretty_format(day) ==
    IF day \notin 1..31 THEN "th"
    ELSE ToString(day) \o (CASE day \in {1, 21, 31} -> "st"
                             [] day \in {2, 22} -> "nd"
                             [] day \in {3, 23} -> "rd"
                             [] OTHER -> "th")

Hour_pretty_format(hour) == IF hour > 12 THEN hour - 12 ELSE hour

Date_shared_format(d, format) ==
    CASE format \in {"ISO8601", "RFC3339"} ->
             Display(d.year) \o "-" \o FormatInt(d.month, 2) \o "-"
                 \o Display(d.day)
      [] format = "PRETTY" ->
             Weekday_as_short(d.weekday) \o ", " \o Month_as_long(d.month)
                 \o " " \o Day_pretty_format(d.day) \o " " \o Display(d.year)
      [] format = "RFC2822" ->
             Weekday_as_short(d.weekday) \o ", " \o Display(d.day) \o " "
                 \o Month_as_short(d.month) \o " " \o Display(d.year)

\* Option<Box<str>>::None
NoStr == [some |-> FALSE, v |-> ""]

find_common_tz_from_seconds(seconds) ==
    CASE seconds = 0 -> Some("UTC")
      [] seconds = 18000 -> Some("EST")
      [] seconds = 21600 -> Some("CST")
      [] seconds = 25200 -> Some("MST")
      [] seconds = 28800 -> Some("PST")
      [] seconds = -32400 -> Some("AKST")
      [] seconds = -36000 -> Some("HST")
      [] OTHER -> NoStr

\* get_timezone_abbreviation with the catalog searched before the table
get_timezone_abbreviation_catalog_first(off, catalog) ==
    IF off < -43200 \/ off > 50400 THEN NoStr
    ELSE IF catalog.some THEN catalog
         ELSE find_common_tz_from_seconds(off)

\* `catalog` is what the search of TZ_VARIANTS at the present instant gives
get_timezone_abbreviation(off, catalog) ==
    IF off < -43200 \/ off > 50400 THEN NoStr
    ELSE IF find_common_tz_from_seconds(off).some
         THEN find_common_tz_from_seconds(off)
         ELSE catalog

Abs(x) == IF x < 0 THEN -x ELSE x

Offset_shared_format(off, format, catalog) ==
    IF format = "PRETTY"
    THEN IF get_timezone_abbreviation(off, catalog).some
         THEN get_timezone_abbreviation(off, catalog).v
         ELSE ""
    ELSE (IF off < 0 THEN "-" ELSE "+")
             \o FormatInt(QuotT(Abs(off), 3600), 2) \o ":"
             \o FormatInt(QuotT(RemT(Abs(off), 3600), 60), 2)

\* `off` is the formatted offset, if the Time has one
Time_shared_format(t, format, off) ==
    CASE format = "ISO8601" ->
             Display(t.hour) \o ":" \o Display(t.minute) \o ":"
                 \o Display(t.seconds)
                 \o (IF t.milliseconds.some
                     THEN "." \o Display(t.milliseconds.v) ELSE "")
                 \o (IF off.some THEN off.v ELSE "")
      [] format = "PRETTY" ->
             FormatInt(Hour_pretty_format(t.hour), 2) \o ":"
                 \o Display(t.minute) \o ":" \o Display(t.seconds) \o " "
                 \o (IF t.hour < 12 THEN "AM" ELSE "PM")
                 \o (IF off.some THEN " " \o off.v ELSE "")
      [] format = "RFC2822" ->
             Display(t.hour) \o ":" \o Display(t.minute) \o ":"
                 \o Display(t.seconds) \o " "
                 \o (IF off.some THEN off.v ELSE "")
      [] format = "RFC3339" ->
             Display(t.hour) \o ":" \o Display(t.minute) \o ":"
                 \o Display(t.seconds) \o "."
                 \o (IF t.milliseconds.some
                     THEN Display(t.milliseconds.v) ELSE "")
                 \o (IF off.some THEN off.v ELSE "")

Time_format(t, format, catalog) ==
    IF t.offset.some
    THEN Time_shared_format(t, format,
             Some(Offset_shared_format(t.offset.v, format, catalog)))
    ELSE Time_shared_format(t, format, NoStr)

DateTime_shared_format(format, d, t) ==
    d \o (IF format \in {"ISO8601", "RFC3339"} THEN "T" ELSE " ") \o t

DateTime_format(dt, format, catalog) ==
    DateTime_shared_format(format, Date_shared_format(dt.date, format),
                           Time_format(dt.time, format, catalog))

DateTime_new(year, month, day, hour, minute, second, milliseconds, off) ==
    LET d == Date_new(year, month, day)
        t == Time_new(hour, minute, second, milliseconds, off)
    IN  IF ~d.ok THEN d
        ELSE IF ~t.ok THEN t
        ELSE Ok([date |-> d.val, time |-> t.val])

DateTimeFormats == {"ISO8601", "RFC2822", "RFC3339", "PRETTY"}

----------------------------------------------------------------------------
(* JSON (json.rs) of a Date through its derived Serialize / Deserialize.   *)
(* A JSON object is the list of its members; a member is a key with a      *)
(* number or a string.  A struct is written member by member in field      *)
(* order, a newtype (Year, Day) as its number and a unit enum variant      *)
(* (Month, Weekday) as the string of its name.                             *)

JNumber(k, x) == [key |-> k, kind |-> "number", num |-> x, str |-> ""]
JString(k, x) == [key |-> k, kind |-> "string", num |-> 0, str |-> x]

MonthVariants ==
    <<"January", "February", "March", "April", "May", "June", "July",
      "August", "September", "October", "November", "December">>

WeekdayVariants ==
    <<"Sunday", "Monday", "Tuesday", "Wednesday", "Thursday", "Friday",
      "Saturday">>

\* Serialize for Date with the weekday member left out
Date_serialize_skip_weekday(d) ==
    <<JNumber("year", d.year), JString("month", MonthVariants[d.month]),
      JNumber("day", d.day)>>

Date_serialize(d) ==
    <<JNumber("year", d.year), JString("month", MonthVariants[d.month]),
      JNumber("day", d.day),
      JString("weekday", WeekdayVariants[d.weekday])>>

to_json(d) == Ok(Date_serialize(d))

\* the members of object j named k
Members(j, k) == {i \in DOMAIN j : j[i].key = k}

\* the variant a string names: its position in `variants`, 0 if it names none
VariantOf(variants, name) ==
    IF \E i \in DOMAIN variants : variants[i] = name
    THEN CHOOSE i \in DOMAIN variants : variants[i] = name
    ELSE 0

BackOk(d) == [ok |-> TRUE, val |-> d, code |-> "Ok"]
BackErr(c) == [ok |-> FALSE, val |-> NoDate, code |-> c]

\* every field must be present once, of the right kind, and in its type
Date_deserialize(j) ==
    LET one(k) == CHOOSE i \in Members(j, k) : TRUE
        isNumber(k, lo, hi) ==
            /\ Cardinality(Members(j, k)) = 1
            /\ j[one(k)].kind = "number"
            /\ j[one(k)].num \in lo..hi
        isVariant(k, variants) ==
            /\ Cardinality(Members(j, k)) = 1
            /\ j[one(k)].kind = "string"
            /\ VariantOf(variants, j[one(k)].str) # 0
    IN  IF /\ isNumber("year", -2147483647 - 1, 2147483647)
           /\ isVariant("month", MonthVariants)
           /\ isNumber("day", 0, 255)
           /\ isVariant("weekday", WeekdayVariants)
        THEN BackOk(MkDate(j[one("year")].num,
                           VariantOf(MonthVariants, j[one("month")].str),
                           j[one("day")].num,
                           VariantOf(WeekdayVariants, j[one("weekday")].str)))
        ELSE BackErr("JsonParse")

from_json(data) == Date_deserialize(data)

\* impl PartialEq for Date
Date_eq(a, b) ==
    /\ a.year = b.year /\ a.month = b.month /\ a.day = b.day
    /\ a.weekday = b.weekday

----------------------------------------------------------------------------
(* The factories that read the system clock (date.rs, time.rs, datetime.rs). *)
(* A clock reading is the calendar date OffsetDateTime reports and whether   *)
(* the local offset lookup succeeds.  The time-of-day fields go through      *)
(* dangerously_from_* wrappers that store them as they are, so they play no  *)
(* part in an outcome; an outcome is [kind, cause, date] with kind "Ok",     *)
(* "panic" or the ErrorCode written in the source, and cause = with_cause.   *)

Weekday_dangerously_from_u8(day) ==
    IF day \in 1..7 THEN Ok(day) ELSE Err("panic")

Weekday_dangerously_from_values(year, month, day) ==
    LET m == IF month < 3 THEN month + 12 ELSE month
        century == QuotT(year, 100)
        year_of_century == RemT(year, 100)
        weekday == RemT(day + QuotT((m + 1) * 26, 10) + year_of_century
                        + QuotT(year_of_century, 4) + QuotT(century, 4)
                        - 2 * century, 7)
    IN  Weekday_dangerously_from_u8(RemT(weekday + 7, 7))

Month_dangerously_from_u8(month) ==
    IF month \in 1..12 THEN Ok(month) ELSE Err("panic")

Date_from_offset_time(offset_time) ==
    LET weekday == Weekday_dangerously_from_values(
                       offset_time.year, offset_time.month, offset_time.day)
        month == Month_dangerously_from_u8(offset_time.month)
    IN  IF ~weekday.ok THEN Outcome("panic", FALSE, NoDate)
        ELSE IF ~month.ok THEN Outcome("panic", FALSE, NoDate)
        ELSE Outcome("Ok", FALSE,
                     MkDate(offset_time.year, month.val, offset_time.day,
                            weekday.val))

\* Date::now repeats the body of from_offset_time on now_utc()
Date_now(now_utc) == Date_from_offset_time(now_utc)

Date_local(now_local) ==
    IF ~now_local.localOk THEN Outcome("Internal", TRUE, NoDate)
    ELSE Date_from_offset_time(now_local)

\* the Time factories store the clock's fields unchecked
Time_now(now_utc) == Outcome("Ok", FALSE, NoDate)

Time_local(now_local) ==
    IF ~now_local.localOk THEN Outcome("Invalid", FALSE, NoDate)
    ELSE Outcome("Ok", FALSE, NoDate)

DateTime_now(now_utc) == Date_from_offset_time(now_utc)

DateTime_local(now_local) ==
    IF ~now_local.localOk THEN Outcome("DateTimeCreation", TRUE, NoDate)
    ELSE Date_from_offset_time(now_local)

\* the dates a clock can report: the Gregorian calendar
ClockDaysInMonth(y, m) ==
    IF m = 2
    THEN IF (y % 4 = 0 /\ y % 100 # 0) \/ y % 400 = 0 THEN 29 ELSE 28
    ELSE IF m \in {4, 6, 9, 11} THEN 30 ELSE 31

ClockReadings ==
    {c \in [year : MinYear..MaxYear, month : 1..12, day : 1..31,
            localOk : BOOLEAN] : c.day <= ClockDaysInMonth(c.year, c.month)}

----------------------------------------------------------------------------
(* date.rs: comparison of Dates and the loops that walk from date to date.  *)
(* A loop is run one iteration at a time; its Vec keeps the first MaxWalk   *)
(* entries pushed and its u32 counter stops at MaxWalk.                     *)

\* impl PartialOrd for Date: year, then month, then day
Date_partial_cmp(a, b) ==
    IF a.year > b.year THEN "Greater"
    ELSE IF a.year < b.year THEN "Less"
    ELSE IF a.month > b.month THEN "Greater"
    ELSE IF a.month < b.month THEN "Less"
    ELSE IF a.day > b.day THEN "Greater"
    ELSE IF a.day < b.day THEN "Less"
    ELSE "Equal"

Date_gt(a, b) == Date_partial_cmp(a, b) = "Greater"
Date_lt(a, b) == Date_partial_cmp(a, b) = "Less"

next_day(d) == add_days(d, 1)
prev_day(d) == sub_days(d, 1)

push(dates, d) == IF Len(dates) < MaxWalk THEN Append(dates, d) ELSE dates
Counted(k) == IF k < MaxWalk THEN k + 1 ELSE MaxWalk

\* days_between up to the test of its first loop
days_between_enter(w) ==
    LET d == w.self
    IN  [w EXCEPT !.fn = "days_between", !.date = d,
                  !.pc = IF Date_gt(d, w.other) THEN "while_back"
                         ELSE IF Date_lt(d, w.other) THEN "while_forward"
                         ELSE "done"]

\* one test of a `while date != *other`, with the iteration it allows
days_between_iterate(w) ==
    IF w.pc = "while_back"
    THEN IF ~Date_eq(w.date, w.other)
         THEN [w EXCEPT !.dates = push(w.dates, w.date),
                        !.date = prev_day(w.date),
                        !.steps = Counted(w.steps)]
         ELSE [w EXCEPT !.pc = IF Date_lt(w.date, w.other)
                               THEN "while_forward" ELSE "done"]
    ELSE IF ~Date_eq(w.date, w.other)
         THEN [w EXCEPT !.dates = push(w.dates, w.date),
                        !.date = next_day(w.date),
                        !.steps = Counted(w.steps)]
         ELSE [w EXCEPT !.pc = "done"]

days_between_count_enter(w) ==
    LET d == w.self
    IN  [w EXCEPT !.fn = "days_between_count", !.date = d,
                  !.pc = IF Date_gt(d, w.other) THEN "while_back"
                         ELSE IF Date_lt(d, w.other) THEN "while_forward"
                         ELSE "done"]

\* one test of `while date > date2` / `while date < date2`
days_between_count_iterate(w) ==
    IF w.pc = "while_back"
    THEN IF Date_gt(w.date, w.other)
         THEN [w EXCEPT !.days = Counted(w.days),
                        !.date = sub_days(w.date, 1),
                        !.steps = Counted(w.steps)]
         ELSE [w EXCEPT !.pc = IF Date_lt(w.date, w.other)
                               THEN "while_forward" ELSE "done"]
    ELSE IF Date_lt(w.date, w.other)
         THEN [w EXCEPT !.days = Counted(w.days),
                        !.date = add_days(w.date, 1),
                        !.steps = Counted(w.steps)]
         ELSE [w EXCEPT !.pc = "done"]

\* Date::is_weekday: the stored weekday is neither Saturday nor Sunday
is_weekday(d) == d.weekday # Saturday /\ d.weekday # Sunday

\* Date::next_weekday / prev_weekday: one day is stepped before the loop
next_weekday_enter(w) ==
    [w EXCEPT !.fn = "next_weekday", !.date = next_day(w.self),
              !.pc = "while_forward"]
prev_weekday_enter(w) ==
    [w EXCEPT !.fn = "prev_weekday", !.date = prev_day(w.self),
              !.pc = "while_back"]

\* one test of `while weekday == Saturday || weekday == Sunday`
weekday_iterate(w) ==
    IF w.date.weekday = Saturday \/ w.date.weekday = Sunday
    THEN [w EXCEPT !.date = IF w.pc = "while_back" THEN prev_day(w.date)
                            ELSE next_day(w.date),
                   !.steps = Counted(w.steps)]
    ELSE [w EXCEPT !.pc = "done"]

weekdays_before_weekday_enter(w, weekday) ==
    [w EXCEPT !.fn = "weekdays_before_weekday", !.weekday = weekday,
              !.date = w.self, !.pc = "while_forward"]

\* one test of `while date.weekday() != weekday`
weekdays_before_weekday_iterate(w) ==
    IF w.date.weekday # w.weekday
    THEN [w EXCEPT !.days = IF is_weekday(w.date) THEN w.days + 1 ELSE w.days,
                   !.date = add_days(w.date, 1),
                   !.steps = Counted(w.steps)]
    ELSE [w EXCEPT !.pc = "done"]

weekdays_until_next_weekday_enter(w) ==
    [w EXCEPT !.fn = "weekdays_until_next_weekday", !.date = w.self,
              !.pc = "while_forward"]

\* one test of `while date.is_weekday()`
weekdays_until_next_weekday_iterate(w) ==
    IF is_weekday(w.date)
    THEN [w EXCEPT !.days = w.days + 1,
                   !.date = add_days(w.date, 1),
                   !.steps = Counted(w.steps)]
    ELSE [w EXCEPT !.pc = "done"]


\* the Dates the loops are run on: Date::new on a few days of two years
WalkDateInputs == {MaxYear - 3, MaxYear - 2} \X {3, 12} \X {1, 3, 8}
WalkDates ==
    {Date_new(a[1], a[2], a[3]).val :
        a \in {x \in WalkDateInputs : Date_new(x[1], x[2], x[3]).ok}}

----------------------------------------------------------------------------
(* Add / Sub of the time primitives: primatives.rs.  The operands are u8    *)
(* (u16 for Millisecond); an operation that leaves the type's range panics *)
(* in a build with overflow checks and wraps in a build without them       *)

Panic == [kind |-> "panic"]
Value(v) == [kind |-> "value", v |-> v]

\* `a + b` and `a - b` on an unsigned integer of `width` bits
unsigned_add(a, b, width, overflow_checks) ==
    IF a + b < 2 ^ width THEN Value(a + b)
    ELSE IF overflow_checks THEN Panic
    ELSE Value((a + b) % (2 ^ width))
unsigned_sub(a, b, width, overflow_checks) ==
    IF a >= b THEN Value(a - b)
    ELSE IF overflow_checks THEN Panic
    ELSE Value((a - b) % (2 ^ width))

\* Add<u8> for Hour and for Minute: `match sum { 0..=max => sum,
\* _ => sum - (max + 1) }`
add_u8_match(self, rhs, max, overflow_checks) ==
    LET sum == unsigned_add(self, rhs, 8, overflow_checks)
    IN  IF sum.kind = "panic" THEN Panic
        ELSE IF sum.v <= max THEN sum
        ELSE unsigned_sub(sum.v, max + 1, 8, overflow_checks)

\* Sub<u8> for Hour and for Minute: `match diff { 0..=max => diff,
\* _ => diff + (max + 1) }`
sub_u8_match(self, rhs, max, overflow_checks) ==
    LET diff == unsigned_sub(self, rhs, 8, overflow_checks)
    IN  IF diff.kind = "panic" THEN Panic
        ELSE IF diff.v <= max THEN diff
        ELSE unsigned_add(diff.v, max + 1, 8, overflow_checks)

Hour_add(self, rhs, overflow_checks) ==
    add_u8_match(self, rhs, 23, overflow_checks)
Hour_sub(self, rhs, overflow_checks) ==
    sub_u8_match(self, rhs, 23, overflow_checks)
Minute_add(self, rhs, overflow_checks) ==
    add_u8_match(self, rhs, 59, overflow_checks)
Minute_sub(self, rhs, overflow_checks) ==
    sub_u8_match(self, rhs, 59, overflow_checks)

Second_add(self, rhs, overflow_checks) ==
    LET second == unsigned_add(self, rhs, 8, overflow_checks)
    IN  IF second.kind = "panic" THEN Panic
        ELSE IF second.v > 59
             THEN unsigned_sub(second.v, 60, 8, overflow_checks)
        ELSE second

\* `if self.0 < rhs { Self(60 - rhs + self.0) } else { Self(self.0 - rhs) }`
Second_sub(self, rhs, overflow_checks) ==
    IF self < rhs
    THEN LET left == unsigned_sub(60, rhs, 8, overflow_checks)
         IN  IF left.kind = "panic" THEN Panic
             ELSE unsigned_add(left.v, self, 8, overflow_checks)
    ELSE unsigned_sub(self, rhs, 8, overflow_checks)

Millisecond_add(self, rhs, overflow_checks) ==
    LET millisecond == unsigned_add(self, rhs, 16, overflow_checks)
    IN  IF millisecond.kind = "panic" THEN Panic
        ELSE IF millisecond.v > 999
             THEN unsigned_sub(millisecond.v, 1000, 16, overflow_checks)
        ELSE millisecond

\* `if millisecond < 0` is never true of a u16
Millisecond_sub(self, rhs, overflow_checks) ==
    LET millisecond == unsigned_sub(self, rhs, 16, overflow_checks)
    IN  IF millisecond.kind = "panic" THEN Panic
        ELSE IF millisecond.v < 0
             THEN unsigned_add(millisecond.v, 1000, 16, overflow_checks)
        ELSE millisecond

\* the modulus of a time primitive
Modulus(kind) ==
    CASE kind = "Hour" -> 24
      [] kind = "Minute" -> 60
      [] kind = "Second" -> 60
      [] kind = "Millisecond" -> 1000

\* the values and operands tried: both ends of the primitive's range, and
\* operands up to the modulus, around it and at the end of the operand type
ArithValues(kind) == {0, RemainderMargin, Modulus(kind) - 1}
ArithOperands(kind) ==
    (0..RemainderMargin)
        \cup ((Modulus(kind) - RemainderMargin)..(Modulus(kind) + RemainderMargin))
        \cup {IF kind = "Millisecond" THEN 65535 ELSE 255}

----------------------------------------------------------------------------
(* The leap-year rules: primatives.rs (DaysInMonth) and helpers.rs *)

DaysInMonth_from_month(month, year) ==
    CASE month = February -> IF RemT(year, 4) = 0 THEN 29 ELSE 28
      [] month \in {4, 6, 9, 11} -> 30
      [] OTHER -> 31

helpers_is_leap_year(year) ==
    (RemT(year, 4) = 0 /\ RemT(year, 100) # 0) \/ RemT(year, 400) = 0

helpers_days_in_month(month, year) ==
    CASE month \in {1, 3, 5, 7, 8, 10, 12} -> 31
      [] month \in {4, 6, 9, 11} -> 30
      [] month = 2 -> IF helpers_is_leap_year(year) THEN 29 ELSE 28
      [] OTHER -> 0

LeapYearInputs ==
    (0..MaxLowYear) \cup {100 * c : c \in 1..MaxCentury}
        \cup (MinYear..MaxYear)

----------------------------------------------------------------------------
(* Dispatch of the primitive calls on the kind of primitive *)

SteppedKinds == {"Month", "Weekday", "Day", "Hour", "Minute", "Second",
                 "Millisecond"}
Kinds == SteppedKinds \cup {"Year"}

from_raw(kind, raw) ==
    CASE kind = "Year" -> Year_from_i32(raw)
      [] kind = "Month" -> Month_from_u8(raw)
      [] kind = "Day" -> Day_from_u8(raw)
      [] kind = "Weekday" -> Weekday_from_u8(raw)
      [] kind = "Hour" -> Hour_from_u8(raw)
      [] kind = "Minute" -> Minute_from_u8(raw)
      [] kind = "Second" -> Second_from_u8(raw)
      [] kind = "Millisecond" -> Millisecond_from_u16(raw)

next(kind, v) ==
    CASE kind = "Year" -> Year_next(v)
      [] kind = "Month" -> Month_next(v)
      [] kind = "Day" -> Day_next(v)
      [] kind = "Weekday" -> Weekday_next(v)
      [] kind = "Hour" -> Hour_next(v)
      [] kind = "Minute" -> Minute_next(v)
      [] kind = "Second" -> Second_next(v)
      [] kind = "Millisecond" -> Millisecond_next(v)

next_back(kind, v) ==
    CASE kind = "Year" -> Year_next_back(v)
      [] kind = "Month" -> Month_next_back(v)
      [] kind = "Day" -> Day_next_back(v)
      [] kind = "Weekday" -> Weekday_next_back(v)
      [] kind = "Hour" -> Hour_next_back(v)
      [] kind = "Minute" -> Minute_next_back(v)
      [] kind = "Second" -> Second_next_back(v)
      [] kind = "Millisecond" -> Millisecond_next_back(v)

\* the raw integers each fallible constructor is tried on
RawInputs(kind) ==
    CASE kind = "Year" ->
             ((-YearMargin)..YearMargin) \cup (MinYear..MaxYear) \cup I32Ends
      [] kind = "Millisecond" -> (0..MaxMsIn) \cup {65535}
      [] OTHER -> U8

OffsetInputs ==
    ((-43200 - OffsetMargin)..(50400 + OffsetMargin)) \cup I32Ends

HourInputs == {0, 255} \cup ((23 - TimeMargin)..(23 + TimeMargin))
MinuteInputs == {0, 255} \cup ((59 - TimeMargin)..(59 + TimeMargin))
MillisecondInputs ==
    {None} \cup {Some(x) : x \in {0, 65535} \cup
                               ((999 - TimeMargin)..(999 + TimeMargin))}
TimeOffsetInputs ==
    {None} \cup {Some(x) : x \in {0} \cup I32Ends \cup
                               ((-43200 - TimeMargin)..(-43200 + TimeMargin)) \cup
                               ((50400 - TimeMargin)..(50400 + TimeMargin))}
NoTimeArgs == <<0, 0, 0, None, None>>

\* arguments of DateTime::new whose rendering is examined
FormatDateInputs == {2020, 2021} \X {1, 12} \X {1, 3, 22}
FormatTimeInputs ==
    {0, 9, 12, 13, 23} \X {0, 5, 59} \X {0, 59}
        \X {None, Some(0), Some(7), Some(999)}
        \X {None, Some(0), Some(18000), Some(-32400), Some(3600),
            Some(-43200)}
\* what the TZ_VARIANTS search may give for an offset outside the table
CatalogAnswers == {NoStr, Some("Zone")}
\* offsets whose abbreviation is asked for: every half hour
TzInputs == {1800 * k : k \in (-MaxHalfHours)..MaxHalfHours}

RefYears == {-1, 0, 1900, 2000, 2019, 2020, 2021, 2023}
InputYears == RefYears \cup (MinYear..MaxYear)
\* arithmetic is explored from the years MinYear..MaxYear and from year 0,
\* the lowest year Date::new accepts; a call may leave year 0 downwards
InArithRange(y) == y \in (MinYear..MaxYear) \cup {0}
InResultRange(y) == y \in (MinYear..MaxYear) \cup {-1, 0}

----------------------------------------------------------------------------
(* The Date state machine: a caller builds a Date with Date::new and then   *)
(* applies arithmetic methods to it, each mutating the Date in place.       *)

DateIdle == /\ date = NoDate /\ start = NoDate /\ op = "init" /\ n = 0
            /\ result = "none"
PrimIdle == /\ prim = [kind |-> "Year", value |-> 0] /\ pprev = 0
            /\ pop = "idle" /\ praw = 0 /\ pres = "none"
OffIdle == offArg = 0 /\ offset = 0 /\ offRes = "idle"
TimeIdle == timeArgs = NoTimeArgs /\ time = NoTime /\ timeRes = "idle"
FmtIdle == fmt = "none" /\ out = ""
NowIdle == clock = NoClock /\ nowOp = "idle" /\ nowRes = NoOutcome
JsonIdle == json = <<>> /\ back = NoBack /\ jsonOp = "idle"
CallIdle == call = NoCall /\ callOp = "idle" /\ ret = NoRet
WalkIdle == walk = NoWalk

Init ==
    /\ DateIdle
    /\ newArgs \in InputYears \X (0..MaxMonthIn) \X (0..MaxDayIn)
    /\ PrimIdle
    /\ OffIdle
    /\ TimeIdle /\ FmtIdle /\ NowIdle /\ JsonIdle /\ CallIdle /\ WalkIdle

DateNew ==
    /\ op = "init"
    /\ LET r == Date_new(newArgs[1], newArgs[2], newArgs[3])
       IN  /\ date' = IF r.ok THEN r.val ELSE NoDate
           /\ result' = r.code
    /\ op' = "new"
    /\ UNCHANGED <<start, n, newArgs>>
    /\ UNCHANGED <<primVars, offVars, timeVars, fmtVars, nowVars, jsonVars, callVars, walkVars>>

\* one arithmetic call self.<name>(k); `r` is the Date it leaves in self
Arith(name, k, r) ==
    /\ result = "Ok"
    /\ InArithRange(date.year)
    /\ InResultRange(r.year)
    /\ start' = date
    /\ date' = r
    /\ op' = name
    /\ n' = k
    /\ newArgs' = <<0, 0, 0>>
    /\ UNCHANGED result
    /\ UNCHANGED <<primVars, offVars, timeVars, fmtVars, nowVars, jsonVars, callVars, walkVars>>

AddDays == \E k \in 0..MaxN : Arith("add_days", k, add_days(date, k))
SubDays == \E k \in 0..MaxN : Arith("sub_days", k, sub_days(date, k))
\* `weeks * 7` is u8 arithmetic: when the product exceeds 255 a build with
\* overflow checks aborts the call and a build without them wraps
ArithOverflow(name, k) ==
    /\ result = "Ok"
    /\ InArithRange(date.year)
    /\ k * 7 > 255
    /\ result' = "panic"
    /\ start' = date
    /\ op' = name
    /\ n' = k
    /\ newArgs' = <<0, 0, 0>>
    /\ UNCHANGED date
    /\ UNCHANGED <<primVars, offVars, timeVars, fmtVars, nowVars, jsonVars, callVars, walkVars>>

WeekCounts == (0..MaxN) \cup {MaxWeeks}

AddWeeks ==
    \E k \in WeekCounts :
        \/ Arith("add_weeks", k, add_weeks(date, k))
        \/ ArithOverflow("add_weeks", k)

SubWeeks ==
    \E k \in WeekCounts :
        \/ Arith("sub_weeks", k, sub_weeks(date, k))
        \/ ArithOverflow("sub_weeks", k)
AddMonths == \E k \in 0..MaxN : Arith("add_months", k, add_months(date, k))
SubMonths == \E k \in 0..MaxN : Arith("sub_months", k, sub_months(date, k))
AddYears == \E k \in 0..MaxN : Arith("add_years", k, add_years(date, k))
SubYears == \E k \in 0..MaxN : Arith("sub_years", k, sub_years(date, k))

Next ==
    \/ DateNew
    \/ AddDays \/ SubDays \/ AddWeeks \/ SubWeeks
    \/ AddMonths \/ SubMonths \/ AddYears \/ SubYears

Spec == Init /\ [][Next]_vars

----------------------------------------------------------------------------
(* The primitives state machine: a raw integer goes through the fallible    *)
(* constructor of one kind of primitive; the value is then stepped.         *)

InitPrim ==
    /\ \E k \in Kinds :
         /\ prim = [kind |-> k, value |-> 0]
         /\ praw \in RawInputs(k)
    /\ pprev = 0 /\ pop = "init" /\ pres = "none"
    /\ DateIdle /\ newArgs = <<0, 0, 0>>
    /\ OffIdle
    /\ TimeIdle /\ FmtIdle /\ NowIdle /\ JsonIdle /\ CallIdle /\ WalkIdle

PrimFromRaw ==
    /\ pop = "init"
    /\ LET r == from_raw(prim.kind, praw)
       IN  /\ prim' = [prim EXCEPT !.value = r.val]
           /\ pres' = r.code
    /\ pop' = "from_raw"
    /\ UNCHANGED <<pprev, praw>>
    /\ UNCHANGED <<dateVars, offVars, timeVars, fmtVars, nowVars, jsonVars, callVars, walkVars>>

\* one step call; the constructor's argument is out of scope by then, and a
\* Year is stepped only inside lo..hi
PrimStep(name, lo, hi, v) ==
    /\ pres = "Ok"
    /\ prim.kind = "Year" => prim.value \in lo..hi
    /\ pprev' = prim.value
    /\ prim' = [prim EXCEPT !.value = v]
    /\ pop' = name
    /\ praw' = 0
    /\ UNCHANGED pres
    /\ UNCHANGED <<dateVars, offVars, timeVars, fmtVars, nowVars, jsonVars, callVars, walkVars>>

PrimNext == PrimStep("next", -1, MaxYear - 1, next(prim.kind, prim.value))

PrimNextBack == PrimStep("next_back", 0, MaxYear, next_back(prim.kind, prim.value))

NextPrim == PrimFromRaw \/ PrimNext \/ PrimNextBack

SpecPrim == InitPrim /\ [][NextPrim]_vars

----------------------------------------------------------------------------
(* The Offset state machine: Offset::from_seconds applied to an i32 *)

InitOffset ==
    /\ offArg \in OffsetInputs
    /\ offset = 0 /\ offRes = "none"
    /\ DateIdle /\ newArgs = <<0, 0, 0>>
    /\ PrimIdle
    /\ TimeIdle /\ FmtIdle /\ NowIdle /\ JsonIdle /\ CallIdle /\ WalkIdle

OffsetFromSeconds ==
    /\ offRes = "none"
    /\ LET r == Offset_from_seconds(offArg)
       IN  /\ offset' = r.val
           /\ offRes' = r.code
    /\ UNCHANGED offArg
    /\ UNCHANGED <<dateVars, primVars, timeVars, fmtVars, nowVars, jsonVars, callVars, walkVars>>

NextOffset == OffsetFromSeconds

SpecOffset == InitOffset /\ [][NextOffset]_vars

----------------------------------------------------------------------------
(* The Time state machine: Time::new applied to its five arguments *)

InitTime ==
    /\ timeArgs \in HourInputs \X MinuteInputs \X MinuteInputs
                      \X MillisecondInputs \X TimeOffsetInputs
    /\ time = NoTime /\ timeRes = "none"
    /\ DateIdle /\ newArgs = <<0, 0, 0>>
    /\ PrimIdle /\ OffIdle
    /\ FmtIdle /\ NowIdle /\ JsonIdle /\ CallIdle /\ WalkIdle

TimeNew ==
    /\ timeRes = "none"
    /\ LET r == Time_new(timeArgs[1], timeArgs[2], timeArgs[3], timeArgs[4],
                         timeArgs[5])
       IN  /\ time' = IF r.ok THEN r.val ELSE NoTime
           /\ timeRes' = r.code
    /\ UNCHANGED timeArgs
    /\ UNCHANGED <<dateVars, primVars, offVars, fmtVars, nowVars, jsonVars, callVars, walkVars>>

NextTime == TimeNew

SpecTime == InitTime /\ [][NextTime]_vars

----------------------------------------------------------------------------
(* The DateTime state machine: DateTime::new, then format on the result *)

InitFormat ==
    /\ newArgs \in FormatDateInputs
    /\ timeArgs \in FormatTimeInputs
    /\ date = NoDate /\ start = NoDate /\ op = "init" /\ n = 0
    /\ result = "none"
    /\ time = NoTime /\ timeRes = "none"
    /\ FmtIdle
    /\ PrimIdle /\ OffIdle /\ NowIdle /\ JsonIdle /\ CallIdle /\ WalkIdle

DateTimeNew ==
    /\ op = "init"
    /\ LET r == DateTime_new(newArgs[1], newArgs[2], newArgs[3], timeArgs[1],
                             timeArgs[2], timeArgs[3], timeArgs[4],
                             timeArgs[5])
       IN  /\ date' = IF r.ok THEN r.val.date ELSE NoDate
           /\ time' = IF r.ok THEN r.val.time ELSE NoTime
           /\ result' = r.code
           /\ timeRes' = r.code
    /\ op' = "DateTime::new"
    /\ UNCHANGED <<start, n, newArgs, timeArgs>>
    /\ UNCHANGED <<primVars, offVars, fmtVars, nowVars, jsonVars, callVars, walkVars>>

DateTimeFormat ==
    /\ op = "DateTime::new" /\ result = "Ok"
    /\ fmt = "none"
    /\ \E format \in DateTimeFormats, catalog \in CatalogAnswers :
          /\ fmt' = format
          /\ out' = DateTime_format([date |-> date, time |-> time], format,
                                    catalog)
    /\ UNCHANGED <<dateVars, timeVars, primVars, offVars, nowVars, jsonVars, callVars, walkVars>>

NextFormat == DateTimeNew \/ DateTimeFormat

SpecFormat == InitFormat /\ [][NextFormat]_vars

----------------------------------------------------------------------------
(* Formatting a Time: Time::new builds a Time, which Format::format then   *)
(* renders in one of the four formats                                      *)

InitTimeFormat ==
    /\ timeArgs \in FormatTimeInputs
    /\ time = NoTime /\ timeRes = "none"
    /\ DateIdle /\ newArgs = <<0, 0, 0>>
    /\ PrimIdle /\ OffIdle
    /\ FmtIdle /\ NowIdle /\ JsonIdle /\ CallIdle /\ WalkIdle

TimeFormat ==
    /\ timeRes = "Ok"
    /\ fmt = "none"
    /\ \E format \in DateTimeFormats, catalog \in CatalogAnswers :
          /\ fmt' = format
          /\ out' = Time_format(time, format, catalog)
    /\ UNCHANGED <<dateVars, timeVars, primVars, offVars, nowVars, jsonVars,
                   callVars, walkVars>>

NextTimeFormat == TimeNew \/ TimeFormat

SpecTimeFormat == InitTimeFormat /\ [][NextTimeFormat]_vars

----------------------------------------------------------------------------
(* The JSON state machine: Date::new, then to_json, then from_json on it *)

InitJson ==
    /\ DateIdle
    /\ newArgs \in InputYears \X (0..MaxMonthIn) \X (0..MaxDayIn)
    /\ json = <<>> /\ back = NoBack /\ jsonOp = "init"
    /\ PrimIdle /\ OffIdle /\ TimeIdle /\ FmtIdle /\ NowIdle /\ CallIdle /\ WalkIdle

ToJson ==
    /\ op = "new" /\ result = "Ok"
    /\ jsonOp = "init"
    /\ json' = to_json(date).val
    /\ jsonOp' = "to_json"
    /\ UNCHANGED back
    /\ UNCHANGED <<dateVars, primVars, offVars, timeVars, fmtVars, nowVars, callVars, walkVars>>

FromJson ==
    /\ jsonOp = "to_json"
    /\ back' = from_json(json)
    /\ jsonOp' = "from_json"
    /\ UNCHANGED json
    /\ UNCHANGED <<dateVars, primVars, offVars, timeVars, fmtVars, nowVars, callVars, walkVars>>

NextJson == DateNew \/ ToJson \/ FromJson

SpecJson == InitJson /\ [][NextJson]_vars

----------------------------------------------------------------------------
(* The leap-year state machine: one of the rules is asked about one year; *)
(* the answer is whether the year has a 29 February                       *)

OthersIdle ==
    /\ DateIdle /\ newArgs = <<0, 0, 0>>
    /\ PrimIdle /\ OffIdle /\ TimeIdle /\ FmtIdle /\ NowIdle /\ JsonIdle

InitLeap ==
    /\ call \in {[fn |-> "leap", year |-> y] : y \in LeapYearInputs}
    /\ callOp = "init" /\ ret = NoRet
    /\ OthersIdle /\ WalkIdle

Called(name, r) ==
    /\ callOp = "init"
    /\ callOp' = name
    /\ ret' = r
    /\ UNCHANGED call
    /\ UNCHANGED <<dateVars, primVars, offVars, timeVars, fmtVars, nowVars,
                   jsonVars, walkVars>>

YearIsLeapYear ==
    Called("Year::is_leap_year", [leap |-> Year_is_leap_year(call.year)])
MonthValidDaysInMonth ==
    Called("Month::valid_days_in_month",
           [leap |-> valid_days_in_month(February, call.year) = 29])
DaysInMonthFromMonth ==
    Called("DaysInMonth::from_month",
           [leap |-> DaysInMonth_from_month(February, call.year) = 29])
HelpersIsLeapYear ==
    Called("helpers::is_leap_year", [leap |-> helpers_is_leap_year(call.year)])
HelpersDaysInMonth ==
    Called("helpers::days_in_month",
           [leap |-> helpers_days_in_month(2, call.year) = 29])

NextLeap ==
    \/ YearIsLeapYear \/ MonthValidDaysInMonth \/ DaysInMonthFromMonth
    \/ HelpersIsLeapYear \/ HelpersDaysInMonth

SpecLeap == InitLeap /\ [][NextLeap]_vars

----------------------------------------------------------------------------
(* The abbreviation state machine: an Offset is asked for its abbreviation, *)
(* is rendered under PRETTY, or its seconds are looked up in the table      *)

InitTz ==
    /\ call \in {[fn |-> "tz", seconds |-> x, catalog |-> c] :
                     x \in TzInputs, c \in CatalogAnswers}
    /\ callOp = "init" /\ ret = NoRet
    /\ OthersIdle /\ WalkIdle

GetTimezoneAbbreviation ==
    Called("Offset::get_timezone_abbreviation",
           get_timezone_abbreviation(call.seconds, call.catalog))
OffsetFormatPretty ==
    Called("Offset::format",
           Some(Offset_shared_format(call.seconds, "PRETTY", call.catalog)))
FindCommonTz ==
    Called("find_common_tz_from_seconds",
           find_common_tz_from_seconds(call.seconds))

NextTz == GetTimezoneAbbreviation \/ OffsetFormatPretty \/ FindCommonTz

SpecTz == InitTz /\ [][NextTz]_vars

----------------------------------------------------------------------------
(* The walk state machine: days_between or days_between_count is called on *)
(* two Dates and runs iteration by iteration until its loops are left      *)

StartedIdle ==
    /\ OthersIdle /\ CallIdle

InitWalk ==
    /\ walk \in {[NoWalk EXCEPT !.self = a, !.other = b, !.pc = "init"] :
                     a \in WalkDates, b \in WalkDates}
    /\ StartedIdle

WalkStep(w) ==
    /\ walk' = w
    /\ UNCHANGED <<dateVars, primVars, offVars, timeVars, fmtVars, nowVars,
                   jsonVars, callVars>>

Looping == walk.pc \in {"while_back", "while_forward"}

DaysBetweenEnter ==
    walk.pc = "init" /\ WalkStep(days_between_enter(walk))
DaysBetweenIterate ==
    /\ walk.fn = "days_between" /\ Looping
    /\ WalkStep(days_between_iterate(walk))
DaysBetweenCountEnter ==
    walk.pc = "init" /\ WalkStep(days_between_count_enter(walk))
DaysBetweenCountIterate ==
    /\ walk.fn = "days_between_count" /\ Looping
    /\ WalkStep(days_between_count_iterate(walk))

NextWalk ==
    \/ DaysBetweenEnter \/ DaysBetweenIterate
    \/ DaysBetweenCountEnter \/ DaysBetweenCountIterate

\* a call that was made keeps running: its next iteration is always taken
SpecWalk == InitWalk /\ [][NextWalk]_vars /\ WF_vars(NextWalk)

----------------------------------------------------------------------------
(* The weekday loops: next_weekday, prev_weekday, weekdays_before_weekday  *)
(* and weekdays_until_next_weekday are called on one Date and run          *)
(* iteration by iteration; MaxWalk iterations of a call are followed       *)

InitWeekday ==
    /\ walk \in {[NoWalk EXCEPT !.self = a, !.pc = "init"] : a \in WalkDates}
    /\ StartedIdle

WithinWalk == Looping /\ walk.steps < MaxWalk

NextWeekdayEnter ==
    walk.pc = "init" /\ WalkStep(next_weekday_enter(walk))
NextWeekdayIterate ==
    /\ walk.fn = "next_weekday" /\ WithinWalk
    /\ WalkStep(weekday_iterate(walk))
PrevWeekdayEnter ==
    walk.pc = "init" /\ WalkStep(prev_weekday_enter(walk))
PrevWeekdayIterate ==
    /\ walk.fn = "prev_weekday" /\ WithinWalk
    /\ WalkStep(weekday_iterate(walk))
WeekdaysBeforeWeekdayEnter ==
    /\ walk.pc = "init"
    /\ \E weekday \in Sunday..Saturday :
           WalkStep(weekdays_before_weekday_enter(walk, weekday))
WeekdaysBeforeWeekdayIterate ==
    /\ walk.fn = "weekdays_before_weekday" /\ WithinWalk
    /\ WalkStep(weekdays_before_weekday_iterate(walk))
WeekdaysUntilNextWeekdayEnter ==
    walk.pc = "init" /\ WalkStep(weekdays_until_next_weekday_enter(walk))
WeekdaysUntilNextWeekdayIterate ==
    /\ walk.fn = "weekdays_until_next_weekday" /\ WithinWalk
    /\ WalkStep(weekdays_until_next_weekday_iterate(walk))

NextWeekday ==
    \/ NextWeekdayEnter \/ NextWeekdayIterate
    \/ PrevWeekdayEnter \/ PrevWeekdayIterate
    \/ WeekdaysBeforeWeekdayEnter \/ WeekdaysBeforeWeekdayIterate
    \/ WeekdaysUntilNextWeekdayEnter \/ WeekdaysUntilNextWeekdayIterate

SpecWeekday == InitWeekday /\ [][NextWeekday]_vars

----------------------------------------------------------------------------
(* Arithmetic on the time primitives: one Add or Sub is applied to a valid *)
(* Hour, Minute, Second or Millisecond and an operand                      *)

InitArith ==
    /\ call \in UNION {{[fn |-> "arith", kind |-> k, value |-> v, rhs |-> r,
                         overflow_checks |-> c] :
                            v \in ArithValues(k), r \in ArithOperands(k),
                            c \in BOOLEAN} :
                        k \in {"Hour", "Minute", "Second", "Millisecond"}}
    /\ callOp = "init" /\ ret = NoRet
    /\ OthersIdle /\ WalkIdle

ArithCall(kind, name, r) == call.kind = kind /\ Called(name, r)

HourAdd ==
    ArithCall("Hour", "add",
              Hour_add(call.value, call.rhs, call.overflow_checks))
HourSub ==
    ArithCall("Hour", "sub",
              Hour_sub(call.value, call.rhs, call.overflow_checks))
MinuteAdd ==
    ArithCall("Minute", "add",
              Minute_add(call.value, call.rhs, call.overflow_checks))
MinuteSub ==
    ArithCall("Minute", "sub",
              Minute_sub(call.value, call.rhs, call.overflow_checks))
SecondAdd ==
    ArithCall("Second", "add",
              Second_add(call.value, call.rhs, call.overflow_checks))
SecondSub ==
    ArithCall("Second", "sub",
              Second_sub(call.value, call.rhs, call.overflow_checks))
MillisecondAdd ==
    ArithCall("Millisecond", "add",
              Millisecond_add(call.value, call.rhs, call.overflow_checks))
MillisecondSub ==
    ArithCall("Millisecond", "sub",
              Millisecond_sub(call.value, call.rhs, call.overflow_checks))

NextArith ==
    \/ HourAdd \/ HourSub \/ MinuteAdd \/ MinuteSub
    \/ SecondAdd \/ SecondSub \/ MillisecondAdd \/ MillisecondSub

SpecArith == InitArith /\ [][NextArith]_vars

----------------------------------------------------------------------------
(* The clock state machine: one factory is called on one clock reading *)

InitNow ==
    /\ clock \in ClockReadings
    /\ nowOp = "init" /\ nowRes = NoOutcome
    /\ DateIdle /\ newArgs = <<0, 0, 0>>
    /\ PrimIdle /\ OffIdle
    /\ TimeIdle /\ FmtIdle /\ JsonIdle /\ CallIdle /\ WalkIdle

Factory(name, r) ==
    /\ nowOp = "init"
    /\ nowOp' = name
    /\ nowRes' = r
    /\ UNCHANGED clock
    /\ UNCHANGED <<dateVars, primVars, offVars, timeVars, fmtVars, jsonVars, callVars, walkVars>>

DateNow == Factory("Date::now", Date_now(clock))
DateLocal == Factory("Date::local", Date_local(clock))
TimeNow == Factory("Time::now", Time_now(clock))
TimeLocal == Factory("Time::local", Time_local(clock))
DateTimeNow == Factory("DateTime::now", DateTime_now(clock))
DateTimeLocal == Factory("DateTime::local", DateTime_local(clock))

NextNow ==
    \/ DateNow \/ DateLocal \/ TimeNow \/ TimeLocal
    \/ DateTimeNow \/ DateTimeLocal

SpecNow == InitNow /\ [][NextNow]_vars

----------------------------------------------------------------------------
(* Properties *)

\* a calendar date: month 1..12, day 1..length of that month, year >= 0
CalendarDate(y, m, d) ==
    /\ m \in 1..12
    /\ y >= 0
    /\ d >= 1
    /\ d <= valid_days_in_month(m, y)

ValidDate(d) == CalendarDate(d.year, d.month, d.day)

\* C1: Date::new(y, m, d) returns Ok exactly when 1 <= m <= 12,
\* 1 <= d <= days_in_month(m, y) and y >= 0, and an Invalid error otherwise
\* (no valid date is rejected, day 0 is not accepted).
C1_NewOkIffCalendarDate ==
    op = "new" =>
        LET valid == CalendarDate(newArgs[1], newArgs[2], newArgs[3])
        IN  /\ (result = "Ok") <=> valid
            /\ ~valid => result = "Invalid"

\* C2: for a valid date D and a count k, D.add_days(k) followed by
\* sub_days(k) gives back D (year, month, day and weekday).
C2_AddSubDaysRoundTrip ==
    [][(op = "add_days" /\ ValidDate(start) /\ op' = "sub_days" /\ n' = n)
        => date' = start]_vars

\* C3: Date::new derives the true Gregorian weekday at the reference points:
\* 2020-01-01 Wednesday, 2000-01-01 Saturday, 1900-03-01 Thursday,
\* 2019-01-01 Tuesday.
C3_ReferenceWeekdays ==
    op = "new" =>
        /\ newArgs = <<2020, 1, 1>> => (result = "Ok" /\ date.weekday = Wednesday)
        /\ newArgs = <<2000, 1, 1>> => (result = "Ok" /\ date.weekday = Saturday)
        /\ newArgs = <<1900, 3, 1>> => (result = "Ok" /\ date.weekday = Thursday)
        /\ newArgs = <<2019, 1, 1>> => (result = "Ok" /\ date.weekday = Tuesday)

\* C4: for a valid date D, add_months(k) and sub_months(k) leave a day valid
\* for the target month: the target month's last day when D was the last day
\* of its month or D's day exceeds the target month's last day, D's day
\* otherwise; 2023-01-31 add_months(1) is 2023-02-28.
C4_MonthsClampToTargetMonth ==
    (op \in {"add_months", "sub_months"} /\ ValidDate(start)) =>
        LET last == valid_days_in_month(date.month, date.year)
        IN  /\ date.day \in 1..last
            /\ date.day = IF is_last_day_of_month(start) \/ start.day > last
                           THEN last ELSE start.day
            /\ (op = "add_months" /\ n = 1 /\ start.year = 2023
                    /\ start.month = January /\ start.day = 31)
                => (date.year = 2023 /\ date.month = February /\ date.day = 28)

\* C5: from Feb 29, add_years(k) and sub_years(k) with k >= 1 give February
\* of the target year, day 29 when that year is a leap year and day 28 when
\* it is not; 2020-02-29 add_years(1) is 2021-02-28.
C5_LeapDayFollowsTargetYear ==
    (op \in {"add_years", "sub_years"} /\ n >= 1 /\ ValidDate(start)
        /\ is_leap_year_day(start)) =>
        /\ date.month = February
        /\ date.day = IF Year_is_leap_year(date.year) THEN 29 ELSE 28

\* C6: after any sequence of arithmetic calls on a Date built by Date::new,
\* the stored weekday is the weekday the weekday algorithm derives from the
\* current (year, month, day).
C6_WeekdayStaysDerived ==
    (result = "Ok" /\ op # "init") =>
        Weekday_from_values(date.year, date.month, date.day) = Ok(date.weekday)

\* C7: every arithmetic call on a valid date leaves a date that satisfies
\* Date::is_valid: month in 1..12 and day in 1..days_in_month(month, year).
C7_ArithmeticKeepsDateValid ==
    (op \notin {"init", "new"} /\ ValidDate(start)) =>
        /\ ValidDate(date)
        /\ Date_is_valid(date.year, date.month, date.day)

\* the documented range of each bounded primitive
MinOf(kind) == IF kind \in {"Month", "Weekday", "Day"} THEN 1 ELSE 0

MaxOf(kind) ==
    CASE kind = "Month" -> 12
      [] kind = "Weekday" -> 7
      [] kind = "Day" -> 31
      [] kind = "Hour" -> 23
      [] kind = "Minute" -> 59
      [] kind = "Second" -> 59
      [] kind = "Millisecond" -> 999

InDocumentedRange(kind, v) ==
    IF kind = "Year" THEN v >= 0 ELSE v \in MinOf(kind)..MaxOf(kind)

\* C8: for Month, Weekday, Day, Hour, Minute, Second and Millisecond, next on
\* the maximum gives the minimum, next_back on the minimum gives the maximum,
\* and on every other value they move by exactly one (December -> January,
\* January -> December).
C8_StepsAreCyclic ==
    (prim.kind \in SteppedKinds /\ InDocumentedRange(prim.kind, pprev)) =>
        /\ pop = "next" =>
              prim.value = IF pprev = MaxOf(prim.kind) THEN MinOf(prim.kind)
                           ELSE pprev + 1
        /\ pop = "next_back" =>
              prim.value = IF pprev = MinOf(prim.kind) THEN MaxOf(prim.kind)
                           ELSE pprev - 1

\* C9: each fallible constructor returns Ok exactly on its documented range
\* (Year >= 0, Month 1..12, Day 1..31, Weekday 1..7, Hour 0..23, Minute and
\* Second 0..59, Millisecond 0..999) and an Invalid error on any other input.
C9_ConstructorsAcceptDocumentedRange ==
    pop = "from_raw" =>
        /\ (pres = "Ok") <=> InDocumentedRange(prim.kind, praw)
        /\ ~InDocumentedRange(prim.kind, praw) => pres = "Invalid"

\* C10: Offset::from_seconds(s) returns Ok exactly when -43200 <= s <= 50400
\* and an Invalid error otherwise.
C10_OffsetOkIffInRange ==
    offRes # "none" =>
        /\ (offRes = "Ok") <=> (-43200 <= offArg /\ offArg <= 50400)
        /\ offRes \in {"Ok", "Invalid"}
        /\ offRes = "Ok" => offset = offArg

\* from_seconds(50400), the upper end of the range, has returned Ok
C10_UpperEndAccepted == offArg = 50400 /\ offRes = "Ok" /\ offset = 50400

\* C11: Time::new(h, m, s, ms, off) is Ok exactly when h <= 23, m <= 59,
\* s <= 59, ms is absent or <= 999 and off is absent or within
\* -43200..50400, and is an Invalid error otherwise; when ms and off are both
\* present the outcome agrees with Time::is_valid.
C11_TimeNewOkIffFieldsInRange ==
    timeRes \notin {"none", "idle"} =>
        LET h == timeArgs[1]
            m == timeArgs[2]
            s == timeArgs[3]
            ms == timeArgs[4]
            off == timeArgs[5]
            inRange == /\ h \in 0..23 /\ m \in 0..59 /\ s \in 0..59
                       /\ (ms.some => ms.v \in 0..999)
                       /\ (off.some => off.v \in (-43200)..50400)
        IN  /\ timeRes = (IF inRange THEN "Ok" ELSE "Invalid")
            /\ inRange => time = MkTime(h, m, s, ms, off)
            /\ (ms.some /\ off.some) =>
                   ((timeRes = "Ok") <=> Time_is_valid(h, m, s, ms.v, off.v))

\* Time::new accepted 23:59:59.999 at offset 50400, the upper end of all five
C11_UpperEndsAccepted ==
    /\ timeRes = "Ok"
    /\ time = MkTime(23, 59, 59, Some(999), Some(50400))
    /\ timeArgs = <<23, 59, 59, Some(999), Some(50400)>>

\* C12: no public date constructor panics: Date::now, Date::local and
\* DateTime::now return a Date for every date the clock can report,
\* including the dates whose Zeller index normalizes to 0.
C12_FactoriesNeverPanic ==
    nowOp \in {"Date::now", "Date::local", "DateTime::now"} =>
        nowRes.kind # "panic"

\* C13: when the local offset lookup fails, Date::local, Time::local and
\* DateTime::local each return an error of kind Internal that carries the
\* clock's error as its cause.
C13_LocalFailureIsInternalWithCause ==
    (nowOp \in {"Date::local", "Time::local", "DateTime::local"}
        /\ ~clock.localOk) =>
        (nowRes.kind = "Internal" /\ nowRes.cause)

\* the DateTime of the documentation example: 2020-01-01, 00:00:00,
\* milliseconds 0, offset 0
BuiltFor2020 ==
    /\ op = "DateTime::new" /\ result = "Ok"
    /\ newArgs = <<2020, 1, 1>>
    /\ timeArgs = <<0, 0, 0, Some(0), Some(0)>>

\* C14: the DateTime built for 2020-01-01, 00:00:00, milliseconds 0,
\* offset 0 renders under ISO8601 and under RFC3339 as exactly
\* "2020-01-01T00:00:00.000+00:00".
C14_Iso8601Literal ==
    (BuiltFor2020 /\ fmt \in {"ISO8601", "RFC3339"}) =>
        out = "2020-01-01T00:00:00.000+00:00"

\* C15: the same DateTime renders under RFC2822 as exactly
\* "Wed, 01 Jan 2020 00:00:00 +00:00" and under PRETTY as exactly
\* "Wed, January 1st 2020 00:00:00 AM UTC".
C15_Rfc2822AndPrettyLiterals ==
    /\ (BuiltFor2020 /\ fmt = "RFC2822") =>
           out = "Wed, 01 Jan 2020 00:00:00 +00:00"
    /\ (BuiltFor2020 /\ fmt = "PRETTY") =>
           out = "Wed, January 1st 2020 00:00:00 AM UTC"

\* C18: for a valid date on the last day of its month, add_days(1) gives
\* day 1 of the following month in the same year, or January 1 of year + 1
\* when the month is December; for any other valid date it increases the
\* day by one and leaves month and year unchanged.
C18_AddOneDayRollsMonth ==
    (op = "add_days" /\ n = 1 /\ ValidDate(start)) =>
        IF start.day = valid_days_in_month(start.month, start.year)
        THEN IF start.month = 12
             THEN /\ date.year = start.year + 1
                  /\ date.month = 1 /\ date.day = 1
             ELSE /\ date.year = start.year
                  /\ date.month = start.month + 1 /\ date.day = 1
        ELSE /\ date.year = start.year
             /\ date.month = start.month /\ date.day = start.day + 1

\* C19: for a valid date whose day is 1, sub_days(1) gives the last valid
\* day of the preceding month in the same year, or December 31 of year - 1
\* when the month is January (year > 0); for any other valid date it
\* decreases the day by one and leaves month and year unchanged.
C19_SubOneDayRollsMonth ==
    (op = "sub_days" /\ n = 1 /\ ValidDate(start) /\ start.year > 0) =>
        IF start.day = 1
        THEN IF start.month = 1
             THEN /\ date.year = start.year - 1
                  /\ date.month = 12 /\ date.day = 31
             ELSE /\ date.year = start.year
                  /\ date.month = start.month - 1
                  /\ date.day = valid_days_in_month(date.month, date.year)
        ELSE /\ date.year = start.year
             /\ date.month = start.month /\ date.day = start.day - 1

\* months counted from year 0: the position of a (year, month) pair
MonthIndex(d) == d.year * 12 + (d.month - 1)

\* C20: add_months(1) on a valid December date gives a January date in
\* year + 1, sub_months(1) on a valid January date (year > 0) gives a
\* December date in year - 1, for every other month the month moves by one
\* and the year is unchanged; add_months(k) moves the (year, month) pair
\* forward by exactly k months.
C20_MonthsRollYear ==
    /\ (op = "add_months" /\ ValidDate(start)) =>
           MonthIndex(date) = MonthIndex(start) + n
    /\ (op = "sub_months" /\ n = 1 /\ ValidDate(start) /\ start.year > 0) =>
           MonthIndex(date) = MonthIndex(start) - 1

\* `count` single-day steps of add_days (forward) or sub_days, one at a time
OneDay(d, forward) == IF forward THEN add_days_step(d) ELSE sub_days_step(d)
SevenDays(d, forward) ==
    OneDay(OneDay(OneDay(OneDay(OneDay(OneDay(OneDay(d, forward), forward),
        forward), forward), forward), forward), forward)
RECURSIVE DayByDay(_, _, _)
DayByDay(d, count, forward) ==
    IF count = 0 THEN d
    ELSE LET stepped == IF count >= 7 THEN SevenDays(d, forward)
                        ELSE OneDay(d, forward)
         IN  IF stepped.day = stepped.day
             THEN DayByDay(stepped, IF count >= 7 THEN count - 7
                                    ELSE count - 1, forward)
             ELSE d

\* C16: for every week count w and valid date D, D.add_weeks(w) equals D
\* advanced one day at a time 7 * w times and D.sub_weeks(w) equals D
\* retreated 7 * w days; the product 7 * w is neither truncated nor wrapped.
C16_WeeksAreSevenDays ==
    /\ (op = "add_weeks" /\ ValidDate(start)) =>
           (result = "Ok" /\ date = DayByDay(start, 7 * n, TRUE))
    /\ (op = "sub_weeks" /\ ValidDate(start)) =>
           (result = "Ok" /\ date = DayByDay(start, 7 * n, FALSE))

\* C17: for every valid Date d, unmarshalling the marshalled form of d
\* (fields year, month, day, weekday) gives a Date equal to d; the round
\* trip loses no field.
C17_JsonRoundTrip ==
    (jsonOp = "from_json" /\ ValidDate(date)) =>
        /\ back.ok
        /\ Date_eq(back.val, date)
        /\ back.val = date
        /\ Len(json) = 4

\* the leap day 2020-02-29 went through to_json and from_json
C17_LeapDayRoundTripped ==
    /\ jsonOp = "from_json"
    /\ newArgs = <<2020, 2, 29>>
    /\ json[2] = JString("month", "February")
    /\ back.ok /\ back.val.day = 29 /\ back.val.weekday \in 1..7

\* C21: the year of a Date is never negative: from a valid date no sequence
\* of sub_days, sub_weeks, sub_months and sub_years gives a Date whose year
\* is below 0.
C21_YearNeverNegative ==
    (result = "Ok" /\ op \notin {"init", "new"} /\ ValidDate(start)) =>
        date.year >= 0

\* C22: one leap-year rule is used everywhere: for every year y >= 0,
\* Year::is_leap_year(y), the February length of Month::valid_days_in_month
\* and DaysInMonth::from_month (29 or 28) and helpers::is_leap_year(y) all
\* agree, for example on 1900 and 2000.
C22_OneLeapYearRule ==
    (call.fn = "leap" /\ callOp # "init") =>
        /\ ret.leap = Year_is_leap_year(call.year)
        /\ ret.leap = (valid_days_in_month(February, call.year) = 29)
        /\ ret.leap = (DaysInMonth_from_month(February, call.year) = 29)
        /\ ret.leap = helpers_is_leap_year(call.year)

\* the offsets of the static table and their abbreviations, as documented
TableAbbreviation(seconds) ==
    CASE seconds = 0 -> "UTC"
      [] seconds = 18000 -> "EST"
      [] seconds = 21600 -> "CST"
      [] seconds = 25200 -> "MST"
      [] seconds = 28800 -> "PST"
      [] seconds = -32400 -> "AKST"
      [] seconds = -36000 -> "HST"
      [] OTHER -> ""

\* C23: Offset::get_timezone_abbreviation resolves in a fixed order: an
\* offset of the static table gives the table's abbreviation whatever the
\* catalog holds (0 gives "UTC", 18000 gives "EST"); otherwise the catalog's
\* zone name is returned; if neither matches the result is None, and the
\* PRETTY rendering of the offset is then the empty string.
C23_AbbreviationOrder ==
    (call.fn = "tz" /\ call.seconds \in (-43200)..50400) =>
        LET inTable == TableAbbreviation(call.seconds) # ""
            expected == IF inTable THEN Some(TableAbbreviation(call.seconds))
                        ELSE call.catalog
        IN  /\ callOp = "Offset::get_timezone_abbreviation" =>
                   ret = expected
            /\ callOp = "Offset::format" =>
                   ret.v = (IF expected.some THEN expected.v ELSE "")

\* 18000 was resolved to "EST" although the catalog had a zone to offer
C23_TableBeforeCatalog ==
    /\ callOp = "Offset::get_timezone_abbreviation"
    /\ call.seconds = 18000 /\ call.catalog = Some("Zone")
    /\ ret = Some("EST")

WestZoneHours(name) ==
    CASE name = "EST" -> 5 [] name = "CST" -> 6 [] name = "MST" -> 7
      [] name = "PST" -> 8 [] name = "AKST" -> 9 [] name = "HST" -> 10
      [] OTHER -> 0

\* C24: the static table uses one sign convention: the zones west of UTC it
\* lists (EST, CST, MST, PST, AKST, HST) all map from offsets of the same
\* sign, of magnitude 5h, 6h, 7h, 8h, 9h and 10h.
C24_OneSignConvention ==
    (callOp = "find_common_tz_from_seconds" /\ ret.some
        /\ WestZoneHours(ret.v) # 0) =>
        /\ Abs(call.seconds) = 3600 * WestZoneHours(ret.v)
        /\ \A other \in TzInputs :
               WestZoneHours(find_common_tz_from_seconds(other).v) # 0 =>
                   (other < 0) = (call.seconds < 0)

\* the number of a calendar day, counted from 0000-01-01
RECURSIVE DaysBeforeMonth(_, _)
DaysBeforeMonth(y, m) ==
    IF m <= 1 THEN 0
    ELSE DaysBeforeMonth(y, m - 1) + ClockDaysInMonth(y, m - 1)
DayNumber(d) ==
    365 * d.year + (d.year + 3) \div 4 - (d.year + 99) \div 100
        + (d.year + 399) \div 400 + DaysBeforeMonth(d.year, d.month) + d.day

\* C25: for two valid dates a and b, a.days_between(b) is the inclusive
\* day-by-day walk from a to b: it starts with a, ends with b, holds each
\* calendar day between them once, runs forward when a < b and backward
\* when a > b, and has |b - a| + 1 entries.
C25_DaysBetweenIsInclusiveWalk ==
    (walk.fn = "days_between" /\ walk.pc = "done"
        /\ ValidDate(walk.self) /\ ValidDate(walk.other)
        /\ Len(walk.dates) < MaxWalk) =>
        LET a == DayNumber(walk.self)
            b == DayNumber(walk.other)
            list == walk.dates
        IN  /\ Len(list) = (IF a < b THEN b - a ELSE a - b) + 1
            /\ DayNumber(list[1]) = a
            /\ DayNumber(list[Len(list)]) = b
            /\ \A i \in 1..(Len(list) - 1) :
                   DayNumber(list[i + 1]) =
                       DayNumber(list[i]) + (IF a < b THEN 1 ELSE -1)

\* C26: for two valid dates a and b built by Date::new, a.days_between(b)
\* and a.days_between_count(b) terminate: the loop reaches a date equal to
\* b instead of stepping past it for ever.
C26_WalksTerminate == <>(walk.pc = "done")

\* C28: equality and ordering of Date agree: for two Dates a and b reached
\* through Date::new and the arithmetic, a == b exactly when
\* a.partial_cmp(b) is Equal.
C28_EqAgreesWithOrd ==
    walk.pc \notin {"idle", "init"} =>
        (Date_eq(walk.date, walk.other)
            <=> Date_partial_cmp(walk.date, walk.other) = "Equal")

\* C27: for every valid date D, weekend days included, and every target
\* weekday, next_weekday and prev_weekday return, after a bounded number of
\* single-day steps, a date that is not Saturday or Sunday, and
\* weekdays_before_weekday and weekdays_until_next_weekday return their
\* count after at most 7 steps.
C27_WeekdayLoopsBounded ==
    (walk.fn \in {"next_weekday", "prev_weekday", "weekdays_before_weekday",
                  "weekdays_until_next_weekday"}
        /\ ValidDate(walk.self)) =>
        /\ walk.steps <= 7
        /\ (walk.pc = "done" /\ walk.fn \in {"next_weekday", "prev_weekday"})
               => is_weekday(walk.date)

\* C29: arithmetic on the time primitives stays in range and is modular:
\* an Hour h plus or minus any u8 r is the Hour (h +/- r) mod 24, a Minute
\* or Second is taken mod 60 and a Millisecond with a u16 operand mod 1000,
\* and no operation overflows or underflows the underlying u8 / u16.
C29_TimeArithmeticIsModular ==
    (call.fn = "arith" /\ callOp \in {"add", "sub"}) =>
        /\ ret.kind = "value"
        /\ ret.v = (IF callOp = "add" THEN call.value + call.rhs
                    ELSE call.value - call.rhs) % Modulus(call.kind)

\* the text HH:MM:SS[.mmm][+HH:MM] of a Time
TimeLiteral(t) ==
    FormatInt(t.hour, 2) \o ":" \o FormatInt(t.minute, 2) \o ":"
        \o FormatInt(t.seconds, 2)
        \o (IF t.milliseconds.some
            THEN "." \o FormatInt(t.milliseconds.v, 3) ELSE "")
        \o (IF t.offset.some
            THEN (IF t.offset.v < 0 THEN "-" ELSE "+")
                     \o FormatInt(Abs(t.offset.v) \div 3600, 2) \o ":"
                     \o FormatInt((Abs(t.offset.v) % 3600) \div 60, 2)
            ELSE "")

\* C30: for every valid Time, with or without milliseconds and with or
\* without an offset, the ISO8601 and the RFC3339 renderings are the same
\* text: HH:MM:SS, then '.' and three millisecond digits only when the
\* milliseconds are present, then +HH:MM or -HH:MM only when the offset is
\* present.
C30_Iso8601AndRfc3339Agree ==
    (timeRes = "Ok" /\ fmt \in {"ISO8601", "RFC3339"}) =>
        out = TimeLiteral(time)

====
